---------------------------- MODULE Spec2Model ----------------------------
(***************************************************************************)
(* A model of app.js: the page that renders a bilingual critical edition.  *)
(* Text that the code inspects character by character (division labels,    *)
(* commentary and apparatus markup) is a sequence of one-character         *)
(* strings; text the code only copies (fixed button labels, class names)   *)
(* is a string.  A division's markup is the sequence of its <p> elements.  *)
(***************************************************************************)
EXTENDS Integers, Sequences, FiniteSets, TLC

(***************************************************************************)
(* Bounds of the model.                                                    *)
(***************************************************************************)
MaxLabelLen == 4
MaxParas == 3
MaxDivs == 2
\* The largest batch of entries one callback of the observer is given.
MaxBatch == 2

(***************************************************************************)
(* Characters.                                                             *)
(***************************************************************************)
\* The class [a-zA-Z0-9.\-_] of the regular expression in sanitizeId.
AllowedChars ==
  {"a","b","c","d","e","f","g","h","i","j","k","l","m",
   "n","o","p","q","r","s","t","u","v","w","x","y","z",
   "A","B","C","D","E","F","G","H","I","J","K","L","M",
   "N","O","P","Q","R","S","T","U","V","W","X","Y","Z",
   "0","1","2","3","4","5","6","7","8","9", ".", "-", "_"}

\* White space as String.prototype.trim removes it.
WhiteSpace == {" ", "\t", "\n"}

\* The characters division labels are drawn from: two allowed characters,
\* the underscore, and two characters outside the class.
Alphabet == {"a", ".", "_", " ", "#"}

SeqsUpTo(S, n) == UNION {[1..k -> S] : k \in 0..n}

\* s.substring(i - 1, j) in the 1-based indices of the model.
Sub(s, i, j) == IF i > j THEN <<>> ELSE SubSeq(s, i, j)

(***************************************************************************)
(* sanitizeId                                                              *)
(***************************************************************************)
\* The end of the greedy match of [^a-zA-Z0-9.\-_]+ that starts at i: the
\* index after the last character of the run.
RECURSIVE runEnd(_, _)
runEnd(s, i) ==
  IF i > Len(s) \/ s[i] \in AllowedChars THEN i ELSE runEnd(s, i + 1)

\* s.replace(/[^a-zA-Z0-9.\-_]+/g, "_"), scanning from index i.
RECURSIVE replaceRuns(_, _)
replaceRuns(s, i) ==
  IF i > Len(s) THEN <<>>
  ELSE IF s[i] \in AllowedChars THEN <<s[i]>> \o replaceRuns(s, i + 1)
  ELSE <<"_">> \o replaceRuns(s, runEnd(s, i))

\* The index of the first character that is not "_", or Len(s) + 1.
RECURSIVE skipLeading(_, _)
skipLeading(s, i) ==
  IF i > Len(s) \/ s[i] # "_" THEN i ELSE skipLeading(s, i + 1)

\* The index of the last character that is not "_", or 0.
RECURSIVE skipTrailing(_, _)
skipTrailing(s, j) ==
  IF j < 1 \/ s[j] # "_" THEN j ELSE skipTrailing(s, j - 1)

\* s.replace(/^_+|_+$/g, "")
trimUnderscores(s) == Sub(s, skipLeading(s, 1), skipTrailing(s, Len(s)))

\* sanitizeId with a fault: the class without its "+", every offending
\* character replaced on its own.
RECURSIVE replaceEach(_)
replaceEach(s) ==
  IF s = <<>> THEN <<>>
  ELSE <<(IF Head(s) \in AllowedChars THEN Head(s) ELSE "_")>> \o replaceEach(Tail(s))

sanitizeIdEach(n) == trimUnderscores(replaceEach(n))

\* sanitizeId with a fault: the trailing underscores are not trimmed.
sanitizeIdNoTrailingTrim(n) ==
  LET r == replaceRuns(n, 1) IN Sub(r, skipLeading(r, 1), Len(r))

sanitizeId(n) == trimUnderscores(replaceRuns(n, 1))

\* "div_", the prefix of every section id.
IdPrefix == <<"d", "i", "v", "_">>

\* a || b on strings: the empty string is falsy.
Or(a, b) == IF a # <<>> THEN a ELSE b

\* "div_" + sanitizeId(d.n || d.type || "")
sectionId(d) == IdPrefix \o sanitizeId(Or(Or(d.n, d.type), <<>>))

(***************************************************************************)
(* Payload                                                                 *)
(***************************************************************************)
\* The lang attributes of the <p> elements of a division's markup; "none" is
\* a paragraph without the attribute.
Langs == {"grc", "en", "la", "none"}

\* The markup whose i-th paragraph has lang langs[i]; the paragraph's text is
\* its position, so that paragraphs can be told apart.
Markup(langs) == [i \in 1..Len(langs) |-> [lang |-> langs[i], text |-> i]]

Div(n, type, html, commentaryHtml, apparatusHtml) ==
  [n |-> n, type |-> type, html |-> html,
   commentaryHtml |-> commentaryHtml, apparatusHtml |-> apparatusHtml]

(***************************************************************************)
(* buildDivContent                                                         *)
(***************************************************************************)
\* tmp.querySelectorAll('p[lang="..."]'): the matching paragraphs in
\* document order.
RECURSIVE querySelectorAll(_, _)
querySelectorAll(tmp, lang) ==
  IF tmp = <<>> THEN <<>>
  ELSE (IF Head(tmp).lang = lang THEN <<Head(tmp)>> ELSE <<>>)
       \o querySelectorAll(Tail(tmp), lang)

\* ps.forEach(p => col.appendChild(p))
RECURSIVE appendAll(_, _)
appendAll(col, ps) ==
  IF ps = <<>> THEN col
  ELSE appendAll([col EXCEPT !.children = Append(@, Head(ps))], Tail(ps))

Column(className) == [className |-> className, children |-> <<>>]

\* buildDivContent with a fault: the split is decided on the Greek
\* paragraphs instead of the English ones.
buildDivContentOnGreek(d) ==
  LET gr == querySelectorAll(d.html, "grc")
      en == querySelectorAll(d.html, "en")
  IN  IF Len(gr) = 0
      THEN [className |-> "div-html sec-main", innerHTML |-> d.html, rows |-> <<>>]
      ELSE [className |-> "div-html bilingual sec-main", innerHTML |-> <<>>,
            rows |-> << [className |-> "bi-row bi-two",
                         left  |-> appendAll(Column("bi-col bi-left"), gr),
                         right |-> appendAll(Column("bi-col bi-right"), en)] >>]

\* buildDivContent with a fault: every paragraph that is not English goes to
\* the left column.
buildDivContentAllLeft(d) ==
  LET gr == SelectSeq(d.html, LAMBDA p : p.lang # "en")
      en == querySelectorAll(d.html, "en")
  IN  IF Len(en) = 0
      THEN [className |-> "div-html sec-main", innerHTML |-> d.html, rows |-> <<>>]
      ELSE [className |-> "div-html bilingual sec-main", innerHTML |-> <<>>,
            rows |-> << [className |-> "bi-row bi-two",
                         left  |-> appendAll(Column("bi-col bi-left"), gr),
                         right |-> appendAll(Column("bi-col bi-right"), en)] >>]

\* The node built for a division's markup: a plain container holding the
\* markup, or a grid with one row of two columns.
buildDivContent(d) ==
  LET gr == querySelectorAll(d.html, "grc")
      en == querySelectorAll(d.html, "en")
  IN  IF Len(en) = 0
      THEN [className |-> "div-html sec-main", innerHTML |-> d.html, rows |-> <<>>]
      ELSE [className |-> "div-html bilingual sec-main", innerHTML |-> <<>>,
            rows |-> << [className |-> "bi-row bi-two",
                         left  |-> appendAll(Column("bi-col bi-left"), gr),
                         right |-> appendAll(Column("bi-col bi-right"), en)] >>]

(***************************************************************************)
(* The table of contents and the sections                                  *)
(***************************************************************************)
\* The index of the first character outside White space, or Len(s) + 1.
RECURSIVE skipSpaceLeft(_, _)
skipSpaceLeft(s, i) ==
  IF i > Len(s) \/ s[i] \notin WhiteSpace THEN i ELSE skipSpaceLeft(s, i + 1)

RECURSIVE skipSpaceRight(_, _)
skipSpaceRight(s, j) ==
  IF j < 1 \/ s[j] \notin WhiteSpace THEN j ELSE skipSpaceRight(s, j - 1)

\* s.trim()
trim(s) == Sub(s, skipSpaceLeft(s, 1), skipSpaceRight(s, Len(s)))

\* !!(html && html.trim())
hasContent(html) == html # <<>> /\ trim(html) # <<>>

\* The fixed texts of the page.  Dash stands for " — " (an em dash between
\* two spaces), DivWord for "div".
Dash == <<" ", "--", " ">>
DivWord == <<"d", "i", "v">>
Hash == <<"#">>
Mostra == "Mostra commentario e apparato"
Nascondi == "Nascondi commentario e apparato"

\* tocText with a fault: no "div" for a division with neither n nor type.
tocTextEmpty(d) == IF d.n # <<>> THEN d.n ELSE d.type

\* a.textContent = d.n ? d.n : (d.type || "div")
tocText(d) == IF d.n # <<>> THEN d.n ELSE Or(d.type, DivWord)

\* The anchor render appends to the table of contents for division d.
tocLink(d) ==
  [href |-> Hash \o sectionId(d), textContent |-> tocText(d), active |-> FALSE]

\* h.textContent
headingText(d) ==
  IF d.n # <<>>
  THEN d.n \o (IF d.type # <<>> THEN Dash \o d.type ELSE <<>>)
  ELSE Or(d.type, <<>>)

\* The button render creates for a section with commentary or apparatus.
NewButton == [type |-> "button", className |-> "btn btn-toggle",
              ariaExpanded |-> "false", textContent |-> Mostra]

\* The <section> render builds for division d.  btn, aside and app are
\* sequences of at most one element: the element is there or not.
buildSection(d) ==
  LET hasCommentary == hasContent(d.commentaryHtml)
      hasApparatus  == hasContent(d.apparatusHtml)
  IN  [id        |-> sectionId(d),
       classList |-> {},
       title     |-> headingText(d),
       btn       |-> IF hasCommentary \/ hasApparatus THEN <<NewButton>> ELSE <<>>,
       wrapper   |-> buildDivContent(d),
       aside     |-> IF hasCommentary
                     THEN << [className |-> "sec-aside commentary",
                              head |-> "Commentary", body |-> d.commentaryHtml] >>
                     ELSE <<>>,
       app       |-> IF hasApparatus
                     THEN << [className |-> "sec-apparatus",
                              head |-> "Apparatus criticus", body |-> d.apparatusHtml] >>
                     ELSE <<>>]

(***************************************************************************)
(* toggleSection                                                           *)
(***************************************************************************)
\* toggleSection with a fault: the section is only ever expanded.
toggleSectionExpandOnly(sec) ==
  [sec EXCEPT !.classList = @ \cup {"expanded"},
              !.btn = [k \in DOMAIN sec.btn |->
                         [sec.btn[k] EXCEPT !.ariaExpanded = "true",
                                            !.textContent = Nascondi]]]

\* toggleSection with a fault: the label is not changed.
toggleSectionKeepLabel(sec) ==
  LET expanded == "expanded" \notin sec.classList
  IN  [sec EXCEPT !.classList = IF expanded THEN @ \cup {"expanded"}
                                            ELSE @ \ {"expanded"},
                  !.btn = [k \in DOMAIN sec.btn |->
                             [sec.btn[k] EXCEPT
                                !.ariaExpanded = IF expanded THEN "true" ELSE "false"]]]

\* toggleSection(sec, btn), with btn the section's own button.
toggleSection(sec) ==
  LET expanded == "expanded" \notin sec.classList
  IN  [sec EXCEPT !.classList = IF expanded THEN @ \cup {"expanded"}
                                            ELSE @ \ {"expanded"},
                  !.btn = [k \in DOMAIN sec.btn |->
                             [sec.btn[k] EXCEPT
                                !.ariaExpanded = IF expanded THEN "true" ELSE "false",
                                !.textContent = IF expanded THEN Nascondi ELSE Mostra]]]

\* clickToggle with a fault: expanding a section collapses the others.
clickToggleAccordion(sections, i) ==
  [j \in DOMAIN sections |->
     IF j = i THEN toggleSection(sections[j])
     ELSE IF "expanded" \in sections[j].classList THEN toggleSection(sections[j])
     ELSE sections[j]]

\* The click listener render gives the button of section i: it toggles
\* that section.
clickToggle(sections, i) == [sections EXCEPT ![i] = toggleSection(@)]

(***************************************************************************)
(* initThemeToggle                                                         *)
(***************************************************************************)
\* null: getItem of a missing key, getAttribute of a missing attribute.
Null == "null"

\* apply(mode): the data-theme attribute of the root element afterwards.
applyTheme(mode) ==
  IF mode = "dark" THEN "dark" ELSE IF mode = "light" THEN "light" ELSE Null

\* themeClick with a fault: the mode before the click is stored.
themeClickStoresOld(now) ==
  LET next == IF now = "dark" THEN "light" ELSE "dark"
  IN  [dataTheme |-> applyTheme(next), stored |-> now]

\* themeClick with a fault: the test is on "light", so that the unset mode
\* goes to light.
themeClickFromLight(now) ==
  LET next == IF now = "light" THEN "dark" ELSE "light"
  IN  [dataTheme |-> applyTheme(next), stored |-> next]

\* The click listener of the theme control; now is the root's data-theme.
themeClick(now) ==
  LET next == IF now = "dark" THEN "light" ELSE "dark"
  IN  [dataTheme |-> applyTheme(next), stored |-> next]

(***************************************************************************)
(* renderSpecimen                                                          *)
(***************************************************************************)
Witness(id, text) == [id |-> id, text |-> text]

FallbackWitnesses ==
  << Witness("A", "Codex A (fict.), saec. XII"),
     Witness("B", "Codex B (fict.), saec. XIII"),
     Witness("C", "Codex C (fict.), saec. XIV"),
     Witness("AI", "Aulus Intellex (ed.)") >>

\* resolveWitnesses with a fault: the length of the array is not looked at.
resolveWitnessesAnyArray(payload) ==
  IF payload.meta.present /\ payload.meta.witnesses.isArray
  THEN payload.meta.witnesses.items
  ELSE FallbackWitnesses

\* const wits = (payload.meta && Array.isArray(...) && ....length) ? ... : [...]
resolveWitnesses(payload) ==
  IF /\ payload.meta.present
     /\ payload.meta.witnesses.isArray
     /\ Len(payload.meta.witnesses.items) # 0
  THEN payload.meta.witnesses.items
  ELSE FallbackWitnesses

\* sigPair with a fault: no special case for the editor's siglum.
sigPairPlain(w) == [dt |-> w.id, dd |-> w.text]

\* One <div class="sig">: the <dt> and the <dd> of witness w.
sigPair(w) ==
  [dt |-> IF w.id = "AI" THEN "AI (ed.)" ELSE w.id, dd |-> w.text]

\* The card of the sigla.
specimenCard(wits) ==
  [head |-> "SIGLA", list |-> [i \in 1..Len(wits) |-> sigPair(wits[i])]]

\* renderSpecimen(payload) on a page whose elements are those of present and
\* whose host holds specimen.
renderSpecimen(payload, present, specimen) ==
  IF "specimenSidebar" \notin present
  THEN [present |-> present, specimen |-> specimen]
  ELSE LET wits == resolveWitnesses(payload)
       IN  [present  |-> present \cup {"specimen"},
            specimen |-> IF Len(wits) = 0 THEN <<>> ELSE <<specimenCard(wits)>>]

(***************************************************************************)
(* initActiveTOC                                                           *)
(***************************************************************************)
\* Whether the links of the table of contents match ".toc a": the class of
\* the container is set by the page's markup.
TocLinksMatchSelector == TRUE

\* new Map(links): for an id, the last link of that id.
byIdMap(links) ==
  [id \in {links[k][1] : k \in DOMAIN links} |->
     LET last == CHOOSE k \in DOMAIN links :
                   /\ links[k][1] = id
                   /\ \A j \in DOMAIN links : links[j][1] = id => j <= k
     IN  links[last][2]]

\* document.getElementById(id) among the sections: the first one of that id.
getSectionById(sections, id) ==
  LET hits == {i \in DOMAIN sections : sections[i].id = id}
  IN  IF hits = {} THEN {} ELSE {CHOOSE i \in hits : \A j \in hits : i <= j}

\* The sections the observer is told to observe.
observedSections(links, sections) ==
  UNION {getSectionById(sections, links[k][1]) : k \in DOMAIN links}

\* One entry of a callback, on the links toc.
observeEntry(toc, byId, sections, e) ==
  LET id == sections[e.target].id
  IN  IF id \in DOMAIN byId /\ e.isIntersecting
      THEN [k \in DOMAIN toc |->
              [toc[k] EXCEPT !.active =
                 IF k = byId[id] THEN TRUE
                 ELSE IF TocLinksMatchSelector THEN FALSE ELSE @]]
      ELSE toc

\* observerCallback with a fault: the first intersecting entry wins.
RECURSIVE observerCallbackFirst(_, _, _, _)
observerCallbackFirst(toc, byId, sections, entries) ==
  IF entries = <<>> THEN toc
  ELSE IF Head(entries).isIntersecting
       THEN observeEntry(toc, byId, sections, Head(entries))
       ELSE observerCallbackFirst(toc, byId, sections, Tail(entries))

\* observerCallback with a fault: a link is also cleared when its section
\* stops intersecting.
RECURSIVE observerCallbackClears(_, _, _, _)
observerCallbackClears(toc, byId, sections, entries) ==
  IF entries = <<>> THEN toc
  ELSE LET e == Head(entries)
           t == IF e.isIntersecting THEN observeEntry(toc, byId, sections, e)
                ELSE [k \in DOMAIN toc |->
                        [toc[k] EXCEPT !.active =
                           IF k = byId[sections[e.target].id] THEN FALSE ELSE @]]
       IN  observerCallbackClears(t, byId, sections, Tail(entries))

\* The observer's callback: entries.forEach(...)
RECURSIVE observerCallback(_, _, _, _)
observerCallback(toc, byId, sections, entries) ==
  IF entries = <<>> THEN toc
  ELSE observerCallback(observeEntry(toc, byId, sections, Head(entries)),
                        byId, sections, Tail(entries))

(***************************************************************************)
(* render                                                                  *)
(***************************************************************************)
\* The page as render reads and writes it.
Page(title, author, toc, edition, specimen, present, dataTheme, saved, themeListener, observer) ==
  [title |-> title, author |-> author, toc |-> toc, edition |-> edition,
   specimen |-> specimen, present |-> present, dataTheme |-> dataTheme,
   saved |-> saved, themeListener |-> themeListener, observer |-> observer]

NoObserver == [created |-> FALSE, byId |-> <<>>, targets |-> {}]

\* The statement of render that throws a TypeError on this payload and
\* page, 0 when none does:
\*   1  payload.meta?.title of a null payload
\*   2  titleEl.textContent = ... without the title element
\*   3  authorEl.textContent = ... without the author element
\*   4  tocEl.innerHTML = "" without the TOC container
\*   5  payload.divs.forEach of a payload without divs
\*   6  mainEl.innerHTML = "" without the main container
renderFaultAt(payload, present) ==
  IF payload.kind = "null" THEN 1
  ELSE IF payload.meta.present /\ payload.meta.title # "" /\ "work-title" \notin present THEN 2
  ELSE IF payload.meta.present /\ payload.meta.author # "" /\ "work-author" \notin present THEN 3
  ELSE IF "toc" \notin present THEN 4
  ELSE IF ~payload.divs.present THEN 5
  ELSE IF "edition" \notin present THEN 6
  ELSE 0

\* The links array of render.
renderLinks(payload) ==
  [k \in DOMAIN payload.divs.items |-> <<sectionId(payload.divs.items[k]), k>>]

\* Statement k of render, in the numbering of renderFaultAt; 7 builds the
\* sections, 8 is initActiveTOC, 9 renderSpecimen, 10 initThemeToggle.
\* (initSpanTitles changes span elements only, and the markup of the model
\* has none.)
renderStep(k, payload, stored, page) ==
  CASE k = 2 ->
         IF payload.meta.present /\ payload.meta.title # ""
         THEN [page EXCEPT !.title = payload.meta.title] ELSE page
    [] k = 3 ->
         IF payload.meta.present /\ payload.meta.author # ""
         THEN [page EXCEPT !.author = payload.meta.author] ELSE page
    [] k = 4 -> [page EXCEPT !.toc = <<>>]
    [] k = 5 ->
         [page EXCEPT !.toc =
            [i \in DOMAIN payload.divs.items |-> tocLink(payload.divs.items[i])]]
    [] k = 6 -> [page EXCEPT !.edition =
                   [kind |-> "sections", sections |-> <<>>, message |-> <<>>]]
    [] k = 7 ->
         [page EXCEPT !.edition.sections =
            [i \in DOMAIN payload.divs.items |-> buildSection(payload.divs.items[i])]]
    [] k = 8 ->
         [page EXCEPT !.observer =
            [created |-> TRUE,
             byId    |-> byIdMap(renderLinks(payload)),
             targets |-> observedSections(renderLinks(payload), page.edition.sections)]]
    [] k = 9 ->
         LET r == renderSpecimen(payload, page.present, page.specimen)
         IN  [page EXCEPT !.present = r.present, !.specimen = r.specimen]
    [] k = 10 ->
         [page EXCEPT !.saved = stored,
                      !.dataTheme = applyTheme(stored),
                      !.themeListener = "themeToggle" \in page.present]
    [] OTHER -> page

RECURSIVE renderUpTo(_, _, _, _)
renderUpTo(k, payload, stored, page) ==
  IF k = 0 THEN page
  ELSE renderStep(k, payload, stored, renderUpTo(k - 1, payload, stored, page))

\* render(payload) on page, with stored what local storage holds under
\* "theme": the page afterwards and whether render threw.
render(payload, stored, page) ==
  LET f == renderFaultAt(payload, page.present)
  IN  IF f = 0
      THEN [page |-> renderUpTo(10, payload, stored, page), threw |-> FALSE]
      ELSE [page |-> renderUpTo(f - 1, payload, stored, page), threw |-> TRUE]

(***************************************************************************)
(* Payloads and pages the model starts from                                *)
(***************************************************************************)
NotAnArray == [isArray |-> FALSE, items |-> <<>>]
Array(items) == [isArray |-> TRUE, items |-> items]

NoMeta == [present |-> FALSE, title |-> "", author |-> "", witnesses |-> NotAnArray]
Meta(title, author, witnesses) ==
  [present |-> TRUE, title |-> title, author |-> author, witnesses |-> witnesses]

\* JSON null, an object without divs, an object with divs.
NullPayload ==
  [kind |-> "null", meta |-> NoMeta, divs |-> [present |-> FALSE, items |-> <<>>]]
NoDivs(meta) ==
  [kind |-> "object", meta |-> meta, divs |-> [present |-> FALSE, items |-> <<>>]]
Doc(meta, divs) ==
  [kind |-> "object", meta |-> meta, divs |-> [present |-> TRUE, items |-> divs]]

\* The elements app.js looks up by id.
AllElements ==
  {"work-title", "work-author", "toc", "edition",
   "specimenSidebar", "specimen", "themeToggle"}

BaseMeta == Meta("T", "A", NotAnArray)
BaseMarkup == Markup(<<"grc", "en">>)
BaseDiv == Div(<<"1", ".", "1">>, <<"v">>, BaseMarkup, <<"c">>, <<>>)

Scenario(body, doc, present, saved) ==
  [body |-> body, doc |-> doc, present |-> present, saved |-> saved]

\* Documents of up to MaxDivs divisions that differ in what they carry:
\* label, type, translation, commentary, apparatus; two share an id.
GeneralDivs ==
  { BaseDiv,
    Div(<<"1", ".", "1">>, <<>>, Markup(<<"grc">>), <<" ">>, <<"a", "p">>),
    Div(<<>>, <<"v">>, Markup(<<"en", "none", "grc">>), <<" ", "c", " ">>, <<"a", "p">>),
    Div(<<>>, <<>>, <<>>, <<>>, <<"\n">>),
    Div(<<"a", " ", "b">>, <<"v">>, Markup(<<"la">>), <<"c">>, <<>>) }

GeneralScenarios ==
  { Scenario("object", Doc(BaseMeta, divs), AllElements, Null) :
      divs \in SeqsUpTo(GeneralDivs, MaxDivs) }

\* One division, its n any string of up to MaxLabelLen characters (the
\* empty one leaves the type as the label).
LabelScenarios ==
  { Scenario("object",
             Doc(BaseMeta, << Div(n, <<"#", "v">>, BaseMarkup, <<>>, <<>>) >>),
             AllElements, Null) :
      n \in SeqsUpTo(Alphabet, MaxLabelLen) }

\* One division, its markup any sequence of up to MaxParas paragraphs.
MarkupScenarios ==
  { Scenario("object",
             Doc(BaseMeta, << Div(<<"1">>, <<>>, Markup(langs), <<>>, <<"a">>) >>),
             AllElements, Null) :
      langs \in SeqsUpTo(Langs, MaxParas) }

\* The witness lists a payload may carry, and the pages with and without
\* the sidebar and its host.
WitnessLists ==
  { NotAnArray, Array(<<>>),
    Array(<< Witness("X", "Codex X") >>),
    Array(<< Witness("AI", ""), Witness("B", "Codex B") >>),
    Array(<< Witness("B", "Codex B"), Witness("AI", "ed."), Witness("A", "") >>) }

Metas ==
  {NoMeta} \cup
  { Meta(t, a, w) : t \in {"", "T"}, a \in {"", "A"}, w \in WitnessLists }

MetaScenarios ==
  { Scenario("undefined", Doc(meta, <<BaseDiv>>), AllElements \ gone, Null) :
      meta \in Metas,
      gone \in {{}, {"specimen"}, {"specimenSidebar"}, {"specimenSidebar", "specimen"}} }

\* Payloads render cannot read, and pages with one element missing.
FaultScenarios ==
  { sc \in { Scenario(body, doc, AllElements \ gone, Null) :
               body \in {"undefined", "null", "object"},
               doc \in {NullPayload, NoDivs(BaseMeta), NoDivs(NoMeta),
                        Doc(BaseMeta, <<BaseDiv>>), Doc(NoMeta, <<BaseDiv>>)},
               gone \in {{}} \cup {{e} : e \in AllElements} } :
      sc.body = "object" => sc.doc.kind = "object" }

\* What local storage holds under "theme" when the page loads.
SavedThemes == {Null, "", "light", "dark", "sepia"}

ThemeScenarios ==
  { Scenario("object", Doc(BaseMeta, <<BaseDiv>>), AllElements \ gone, saved) :
      saved \in SavedThemes, gone \in {{}, {"themeToggle"}} }

Scenarios ==
  GeneralScenarios \cup LabelScenarios \cup MarkupScenarios \cup MetaScenarios
  \cup FaultScenarios \cup ThemeScenarios

(***************************************************************************)
(* State                                                                   *)
(***************************************************************************)
VARIABLES
  windowBody,     \* window.__BODY__: [kind, value]
  bodyJson,       \* what body.json parses to
  storage,        \* localStorage "theme"
  present,        \* the ids of the elements of the document
  pc,             \* where the startup function is
  title,          \* #work-title textContent
  author,         \* #work-author textContent
  toc,            \* the anchors of #toc
  edition,        \* the content of #edition
  specimen,       \* the content of #specimen
  dataTheme,      \* the root's data-theme attribute
  saved,          \* const saved of initThemeToggle
  themeListener,  \* whether the theme control has its click listener
  observer,       \* the IntersectionObserver of initActiveTOC
  console         \* what console.error was given

vars == <<windowBody, bodyJson, storage, present, pc, title, author, toc,
          edition, specimen, dataTheme, saved, themeListener, observer, console>>

CurrentPage ==
  Page(title, author, toc, edition, specimen, present, dataTheme, saved,
       themeListener, observer)

SetPage(page) ==
  /\ title' = page.title
  /\ author' = page.author
  /\ toc' = page.toc
  /\ edition' = page.edition
  /\ specimen' = page.specimen
  /\ present' = page.present
  /\ dataTheme' = page.dataTheme
  /\ saved' = page.saved
  /\ themeListener' = page.themeListener
  /\ observer' = page.observer

Init ==
  \E sc \in Scenarios :
    /\ windowBody = [kind |-> sc.body,
                     value |-> IF sc.body = "object" THEN sc.doc ELSE NullPayload]
    /\ bodyJson = sc.doc
    /\ storage = sc.saved
    /\ present = sc.present
    /\ pc = "start"
    /\ title = ""
    /\ author = ""
    /\ toc = <<>>
    /\ edition = [kind |-> "markup", sections |-> <<>>, message |-> <<>>]
    /\ specimen = <<>>
    /\ dataTheme = Null
    /\ saved = Null
    /\ themeListener = FALSE
    /\ observer = NoObserver
    /\ console = <<>>

(***************************************************************************)
(* The startup function                                                    *)
(***************************************************************************)
\* What loadBodyJson can fail with: fetch rejects, the response is not ok
\* (with its status text), or the body is not JSON.
StatusTexts == {"Not Found", ""}

LoadErrors ==
  { [origin |-> "loadBodyJson", name |-> "TypeError", message |-> <<"Failed to fetch">>],
    [origin |-> "loadBodyJson", name |-> "SyntaxError", message |-> <<"Unexpected token">>] }
  \cup
  { [origin |-> "loadBodyJson", name |-> "Error",
     message |-> <<"Failed to fetch body.json: ", st>>] : st \in StatusTexts }

RenderError ==
  [origin |-> "render", name |-> "TypeError",
   message |-> <<"Cannot read properties">>]

\* catchError with a fault: nothing is logged.
catchErrorSilent(e, page, log) ==
  IF "edition" \in page.present
  THEN [page |-> [page EXCEPT !.edition =
                    [kind |-> "error", sections |-> <<>>, message |-> e.message]],
        pc |-> "caught", console |-> log]
  ELSE [page |-> page, pc |-> "rejected", console |-> log]

\* catchError with a fault: an error of render is thrown on.
catchErrorLoadOnly(e, page, log) ==
  IF "edition" \in page.present /\ e.origin = "loadBodyJson"
  THEN [page |-> [page EXCEPT !.edition =
                    [kind |-> "error", sections |-> <<>>, message |-> e.message]],
        pc |-> "caught", console |-> Append(log, e)]
  ELSE [page |-> page, pc |-> "rejected", console |-> log]

\* The catch block: the message replaces the content of #edition and the
\* error is logged; without #edition the block throws itself, and the
\* promise of the startup function is rejected.
catchError(e, page, log) ==
  IF "edition" \in page.present
  THEN [page |-> [page EXCEPT !.edition =
                    [kind |-> "error", sections |-> <<>>, message |-> e.message]],
        pc |-> "caught", console |-> Append(log, e)]
  ELSE [page |-> page, pc |-> "rejected", console |-> log]

Caught(e, page) ==
  LET c == catchError(e, page, console)
  IN  /\ SetPage(c.page)
      /\ pc' = c.pc
      /\ console' = c.console

\* render(data) inside the try block.
Rendered(payload) ==
  LET r == render(payload, storage, CurrentPage)
  IN  IF r.threw
      THEN Caught(RenderError, r.page)
      ELSE /\ SetPage(r.page)
           /\ pc' = "rendered"
           /\ console' = console

\* loadBodyJson returns window.__BODY__.
StartEmbedded ==
  /\ pc = "start"
  /\ windowBody.kind = "object"
  /\ Rendered(windowBody.value)
  /\ UNCHANGED <<windowBody, bodyJson, storage>>

\* loadBodyJson calls fetch.
StartFetch ==
  /\ pc = "start"
  /\ windowBody.kind # "object"
  /\ pc' = "fetching"
  /\ UNCHANGED <<windowBody, bodyJson, storage, present, title, author, toc,
                 edition, specimen, dataTheme, saved, themeListener, observer,
                 console>>

\* The response is ok and its body parses.
FetchSucceeds ==
  /\ pc = "fetching"
  /\ Rendered(bodyJson)
  /\ UNCHANGED <<windowBody, bodyJson, storage>>

\* loadBodyJson throws.
FetchFails ==
  /\ pc = "fetching"
  /\ \E e \in LoadErrors : Caught(e, CurrentPage)
  /\ UNCHANGED <<windowBody, bodyJson, storage>>

(***************************************************************************)
(* Events                                                                  *)
(***************************************************************************)
Sections == edition.sections

\* A click on the button of section i.
ToggleClick(i) ==
  /\ i \in DOMAIN Sections
  /\ Sections[i].btn # <<>>
  /\ edition' = [edition EXCEPT !.sections = clickToggle(@, i)]
  /\ UNCHANGED <<windowBody, bodyJson, storage, present, pc, title, author, toc,
                 specimen, dataTheme, saved, themeListener, observer, console>>

\* A click on the theme control.
ThemeClick ==
  /\ themeListener
  /\ LET c == themeClick(dataTheme)
     IN  /\ dataTheme' = c.dataTheme
         /\ storage' = c.stored
  /\ UNCHANGED <<windowBody, bodyJson, present, pc, title, author, toc, edition,
                 specimen, saved, themeListener, observer, console>>

Entries(targets) == [target : targets, isIntersecting : BOOLEAN]

Batches(targets) == SeqsUpTo(Entries(targets), MaxBatch) \ {<<>>}

\* The platform calls the observer's callback with a batch of entries.
Intersect(entries) ==
  /\ observer.created
  /\ toc' = observerCallback(toc, observer.byId, Sections, entries)
  /\ UNCHANGED <<windowBody, bodyJson, storage, present, pc, title, author,
                 edition, specimen, dataTheme, saved, themeListener, observer,
                 console>>

Next ==
  \/ StartEmbedded
  \/ StartFetch
  \/ FetchSucceeds
  \/ FetchFails
  \/ \E i \in 1..(MaxDivs + 1) : ToggleClick(i)
  \/ ThemeClick
  \/ \E entries \in Batches(observer.targets) : Intersect(entries)

Spec == Init /\ [][Next]_vars

(***************************************************************************)
(* Properties                                                              *)
(***************************************************************************)
\* The payload the startup function hands to render.
RenderedDoc == IF windowBody.kind = "object" THEN windowBody.value ELSE bodyJson

SectionNumbers == 1..(MaxDivs + 1)

IsExpanded(sec) == "expanded" \in sec.classList

\* The section of division d as render leaves it, and the same section
\* expanded.
CollapsedSection(d) == buildSection(d)
ExpandedSection(d) ==
  [buildSection(d) EXCEPT
     !.classList = {"expanded"},
     !.btn = << [type |-> "button", className |-> "btn btn-toggle",
                 ariaExpanded |-> "true",
                 textContent |-> "Nascondi commentario e apparato"] >>]

C1_Consistent ==
  \A i \in DOMAIN Sections :
    Sections[i].btn # <<>> =>
      LET sec == Sections[i]
          d   == RenderedDoc.divs.items[i]
      IN  /\ Len(sec.btn) = 1
          /\ sec.btn[1].ariaExpanded = (IF IsExpanded(sec) THEN "true" ELSE "false")
          /\ sec.btn[1].textContent =
               (IF IsExpanded(sec) THEN "Nascondi commentario e apparato"
                                   ELSE "Mostra commentario e apparato")
          /\ sec = (IF IsExpanded(sec) THEN ExpandedSection(d) ELSE CollapsedSection(d))
          /\ clickToggle(Sections, i)[i] =
               (IF IsExpanded(sec) THEN CollapsedSection(d) ELSE ExpandedSection(d))
          /\ clickToggle(clickToggle(Sections, i), i) = Sections
          /\ CollapsedSection(d).classList = {}
          /\ CollapsedSection(d).btn[1].ariaExpanded = "false"
          /\ CollapsedSection(d).btn[1].textContent = "Mostra commentario e apparato"

C1_Step(i) ==
  LET d == RenderedDoc.divs.items[i]
  IN  /\ Sections[i] = CollapsedSection(d) => Sections'[i] = ExpandedSection(d)
      /\ Sections[i] = ExpandedSection(d) => Sections'[i] = CollapsedSection(d)

\* C1: a section with a toggle control is, in every state, either exactly
\* as render left it (no "expanded" flag, aria-expanded "false", the
\* "Mostra" label) or exactly that with the flag, aria-expanded "true" and
\* the "Nascondi" label; a click takes the first to the second and the
\* second to the first, so that two clicks restore the section.
C1_ToggleInvolution ==
  /\ []C1_Consistent
  /\ [][\A i \in SectionNumbers : ToggleClick(i) => C1_Step(i)]_vars

\* A section that was clicked open, beside one that was not.
C1_Witness ==
  /\ \E i \in DOMAIN Sections :
       /\ Sections[i].btn # <<>>
       /\ IsExpanded(Sections[i])
       /\ Sections[i].btn[1].textContent = Nascondi
  /\ \E j \in DOMAIN Sections :
       /\ Sections[j].btn # <<>>
       /\ ~IsExpanded(Sections[j])

ExplicitThemes == {"light", "dark"}

C2_Persisted == storage = dataTheme /\ dataTheme \in ExplicitThemes

\* C2: a click on the theme control leaves the stored theme equal to the
\* root's data-theme, one of "light" and "dark", and no later step of the
\* page undoes that, whatever was stored when the page loaded.
C2_StoredMatchesApplied ==
  [][(ThemeClick \/ (themeListener /\ C2_Persisted)) => C2_Persisted']_vars

\* Two clicks after a load that found an unknown string in storage.
C2_Witness == saved = "sepia" /\ storage = "light" /\ dataTheme = "light"

C3_ClickMoves ==
  dataTheme' = (IF dataTheme = "dark" THEN "light" ELSE "dark")

C3_TwoClicks ==
  dataTheme \in ExplicitThemes =>
    themeClick(themeClick(dataTheme).dataTheme).dataTheme = dataTheme

C3_Load ==
  /\ pc # "rendered" => ~themeListener
  /\ pc = "rendered" /\ dataTheme = Null => saved \notin ExplicitThemes /\ storage = saved
  /\ pc = "rendered" /\ saved \in ExplicitThemes /\ storage = saved => dataTheme = saved

\* C3: a click takes dark to light and every other mode to dark; from
\* light or dark two clicks return to the same mode; once the mode is light
\* or dark no step makes it unset; the mode is unset after load only when
\* the stored value was neither "light" nor "dark" and nothing was clicked;
\* a stored "light" or "dark" is the mode before the first click, and no
\* click is handled before the load has applied it.
C3_ThemeMoves ==
  /\ [](C3_TwoClicks /\ C3_Load)
  /\ [][ThemeClick => C3_ClickMoves]_vars
  /\ [][(dataTheme \in ExplicitThemes) => (dataTheme' \in ExplicitThemes)]_vars
  /\ [][pc # "rendered" /\ pc' = "rendered" =>
          dataTheme' = (IF storage \in ExplicitThemes THEN storage ELSE Null)]_vars

\* Unset at load (an empty string was stored), then two clicks.
C3_Witness == saved = "" /\ dataTheme = "light" /\ storage = "light"

C10_StartCollapsed ==
  pc # "rendered" /\ pc' = "rendered" =>
    \A i \in DOMAIN Sections' :
      /\ ~IsExpanded(Sections'[i])
      /\ \A k \in DOMAIN Sections'[i].btn :
           /\ Sections'[i].btn[k].ariaExpanded = "false"
           /\ Sections'[i].btn[k].textContent = "Mostra commentario e apparato"

C10_Frame(i) ==
  /\ DOMAIN Sections' = DOMAIN Sections
  /\ \A j \in DOMAIN Sections : j # i => Sections'[j] = Sections[j]
  /\ IsExpanded(Sections'[i]) # IsExpanded(Sections[i])
  /\ [Sections'[i] EXCEPT !.classList = {}, !.btn = <<>>]
       = [Sections[i] EXCEPT !.classList = {}, !.btn = <<>>]

\* C10: render leaves every section collapsed; a click on the control of
\* section i flips the expanded flag of section i, changes that section's
\* flag and control only, and leaves every other section as it was; and a
\* step that is no click on a section's control changes no section of the
\* rendered page.
C10_TogglesIndependent ==
  /\ [][C10_StartCollapsed]_vars
  /\ [][\A i \in SectionNumbers : ToggleClick(i) => C10_Frame(i)]_vars
  /\ [][pc = "rendered" /\ (\A i \in SectionNumbers : ~ToggleClick(i))
          => Sections' = Sections]_vars

\* Two sections expanded at the same time.
C10_Witness ==
  /\ Len(Sections) >= 2
  /\ \A i \in DOMAIN Sections : Sections[i].btn # <<>> /\ IsExpanded(Sections[i])

\* The label of a division: n, or type when n is falsy.
Label(d) == IF d.n # <<>> THEN d.n ELSE d.type

SetMin(S) == CHOOSE x \in S : \A y \in S : x <= y
SetMax(S) == CHOOSE x \in S : \A y \in S : y <= x

\* r without its leading and trailing underscores.
C4_Trimmed(r) ==
  LET keep == {i \in 1..Len(r) : r[i] # "_"}
  IN  IF keep = {} THEN <<>> ELSE SubSeq(r, SetMin(keep), SetMax(keep))

\* One underscore for every character outside the class.
C4_PerCharacter(s) ==
  [i \in 1..Len(s) |-> IF s[i] \in AllowedChars THEN s[i] ELSE "_"]

\* One underscore for every maximal run of characters outside the class:
\* the first character of a run gives it, the others give nothing.
C4_Piece(s, i) ==
  IF s[i] \in AllowedChars THEN <<s[i]>>
  ELSE IF i = 1 \/ s[i - 1] \in AllowedChars THEN <<"_">>
  ELSE <<>>

RECURSIVE C4_PiecesFrom(_, _)
C4_PiecesFrom(s, i) ==
  IF i > Len(s) THEN <<>> ELSE C4_Piece(s, i) \o C4_PiecesFrom(s, i + 1)

C4_PerRun(s) == C4_PiecesFrom(s, 1)

C4_WellFormed(id) ==
  /\ Len(id) >= Len(IdPrefix)
  /\ SubSeq(id, 1, Len(IdPrefix)) = <<"d", "i", "v", "_">>
  /\ LET rest == Sub(id, Len(IdPrefix) + 1, Len(id))
     IN  /\ \A k \in DOMAIN rest : rest[k] \in AllowedChars
         /\ rest # <<>> => rest[1] # "_" /\ rest[Len(rest)] # "_"

\* C4 as claimed: the id is well formed and is "div_" followed by the label
\* with one underscore per offending character, trimmed.
C4_OnePerCharacter ==
  pc = "rendered" =>
    \A i \in DOMAIN Sections :
      /\ C4_WellFormed(Sections[i].id)
      /\ Sections[i].id =
           <<"d", "i", "v", "_">>
           \o C4_Trimmed(C4_PerCharacter(Label(RenderedDoc.divs.items[i])))

\* C4, amended: the id of a section is "div_" followed by a string of
\* characters of [A-Za-z0-9.\-_] that neither starts nor ends with an
\* underscore: the label with every maximal run of characters outside the
\* class replaced by one underscore, and the leading and trailing
\* underscores of the result removed.
C4_OnePerRun ==
  pc = "rendered" =>
    \A i \in DOMAIN Sections :
      /\ C4_WellFormed(Sections[i].id)
      /\ Sections[i].id =
           <<"d", "i", "v", "_">>
           \o C4_Trimmed(C4_PerRun(Label(RenderedDoc.divs.items[i])))

\* A label of an underscore, a run of two offending characters and an
\* allowed character.
C4_Witness ==
  /\ pc = "rendered"
  /\ Len(Sections) = 1
  /\ RenderedDoc.divs.items[1].n = <<"_", "#", " ", ".">>
  /\ Sections[1].id = <<"d", "i", "v", "_", ".">>

\* The positions of the paragraphs of markup html tagged lang.
Tagged(html, lang) == {j \in DOMAIN html : html[j].lang = lang}

\* col holds exactly the paragraphs of html at the positions of P, in the
\* order of html.
C5_Holds(col, html, P) ==
  /\ Len(col.children) = Cardinality(P)
  /\ \A k \in DOMAIN col.children :
       \E j \in P : col.children[k] = html[j]
  /\ \A k, l \in DOMAIN col.children :
       k < l => col.children[k].text < col.children[l].text

\* C5: the node built for a division with at least one lang="en" paragraph
\* is one row of two columns, the left one holding exactly the lang="grc"
\* paragraphs and the right one exactly the lang="en" paragraphs, each in
\* document order, paragraphs with neither tag being in neither; for a
\* division with no lang="en" paragraph it is a single container holding
\* the markup unchanged.
C5_Splitter ==
  pc = "rendered" =>
    \A i \in DOMAIN Sections :
      LET html == RenderedDoc.divs.items[i].html
          w    == Sections[i].wrapper
      IN  IF Tagged(html, "en") # {}
          THEN /\ w.className = "div-html bilingual sec-main"
               /\ w.innerHTML = <<>>
               /\ Len(w.rows) = 1
               /\ C5_Holds(w.rows[1].left, html, Tagged(html, "grc"))
               /\ C5_Holds(w.rows[1].right, html, Tagged(html, "en"))
          ELSE /\ w.className = "div-html sec-main"
               /\ w.innerHTML = html
               /\ w.rows = <<>>

\* A division with an English, an untagged and a Greek paragraph, split.
C5_Witness ==
  /\ pc = "rendered"
  /\ \E i \in DOMAIN Sections :
       LET html == RenderedDoc.divs.items[i].html
       IN  /\ Len(html) = 3
           /\ html[1].lang = "en" /\ html[2].lang = "none" /\ html[3].lang = "grc"
           /\ Len(Sections[i].wrapper.rows) = 1
           /\ Len(Sections[i].wrapper.rows[1].left.children) = 1

C6_Entries(fallback) ==
  pc = "rendered" =>
    /\ Len(toc) = Len(RenderedDoc.divs.items)
    /\ Len(Sections) = Len(toc)
    /\ \A i \in DOMAIN toc :
         LET d == RenderedDoc.divs.items[i]
         IN  /\ toc[i].href = <<"#">> \o Sections[i].id
             /\ toc[i].textContent =
                  (IF d.n # <<>> THEN d.n
                   ELSE IF d.type # <<>> THEN d.type
                   ELSE fallback)

\* C6 as claimed: one TOC entry per division, in payload order, its href
\* "#" and the id of the division's section, its label n, else type, else
\* the empty string.
C6_TocEmptyLabel == C6_Entries(<<>>)

\* C6, amended: one TOC entry per division, in payload order, its href "#"
\* and the id of the division's section, its label n, else type, else the
\* word "div".
C6_TocDivLabel == C6_Entries(<<"d", "i", "v">>)

\* A rendered division with neither n nor type.
C6_Witness ==
  /\ pc = "rendered"
  /\ \E i \in DOMAIN toc :
       /\ RenderedDoc.divs.items[i].n = <<>>
       /\ RenderedDoc.divs.items[i].type = <<>>
       /\ toc[i].textContent = DivWord

C7_FromPayload ==
  /\ RenderedDoc.meta.present
  /\ RenderedDoc.meta.witnesses.isArray
  /\ RenderedDoc.meta.witnesses.items # <<>>

C7_Shown(wits) ==
  /\ Len(specimen) = 1
  /\ Len(specimen[1].list) = Len(wits)
  /\ \A k \in DOMAIN wits :
       /\ specimen[1].list[k].dt = (IF wits[k].id = "AI" THEN "AI (ed.)" ELSE wits[k].id)
       /\ specimen[1].list[k].dd = wits[k].text

C7_Rendered ==
  pc = "rendered" =>
    IF "specimenSidebar" \in present
    THEN /\ "specimen" \in present
         /\ IF C7_FromPayload
            THEN C7_Shown(RenderedDoc.meta.witnesses.items)
            ELSE /\ Len(specimen) = 1
                 /\ [k \in DOMAIN specimen[1].list |-> specimen[1].list[k].dt]
                      = <<"A", "B", "C", "AI (ed.)">>
                 /\ C7_Shown(FallbackWitnesses)
    ELSE specimen = <<>>

\* C7: with the sidebar container, the panel shows the payload's witnesses
\* when they are a non-empty array and else the four fallback entries A, B,
\* C, AI, one pair per witness in list order, "AI" shown as "AI (ed.)" and
\* every other siglum as it is; without the sidebar container no host is
\* created and nothing is shown; and the list the panel resolves is never
\* empty.
C7_WitnessPanel ==
  /\ [](C7_Rendered /\ Len(resolveWitnesses(RenderedDoc)) > 0)
  /\ [][("specimenSidebar" \notin present) =>
          (present' = present /\ specimen' = specimen)]_vars

\* The payload's own list of three shown, the editor's siglum second.
C7_Witness ==
  /\ pc = "rendered"
  /\ C7_FromPayload
  /\ Len(RenderedDoc.meta.witnesses.items) = 3
  /\ Len(specimen) = 1
  /\ specimen[1].list[2].dt = "AI (ed.)"
  /\ specimen[1].list[1].dt = "B"

\* Whether render can run to its end on this payload and page.
C8_Renderable ==
  /\ RenderedDoc.kind = "object"
  /\ RenderedDoc.divs.present
  /\ {"toc", "edition"} \subseteq present
  /\ RenderedDoc.meta.present /\ RenderedDoc.meta.title # "" => "work-title" \in present
  /\ RenderedDoc.meta.present /\ RenderedDoc.meta.author # "" => "work-author" \in present

C8_Embedded ==
  windowBody.kind = "object" =>
    /\ pc # "fetching"
    /\ \A k \in DOMAIN console : console[k].origin # "loadBodyJson"

\* C8 as claimed: the error message is in the main content area only for a
\* failure of the loader, an error of render is neither shown nor logged,
\* and with a global payload nothing is fetched and the load does not fail.
C8_OnlyLoaderCaught ==
  /\ edition.kind = "error" =>
       /\ Len(console) = 1
       /\ console[1].origin = "loadBodyJson"
  /\ \A k \in DOMAIN console : console[k].origin = "loadBodyJson"
  /\ C8_Embedded

C8_State ==
  /\ pc = "rendered" => C8_Renderable /\ console = <<>> /\ edition.kind = "sections"
  /\ pc = "caught" =>
       /\ "edition" \in present
       /\ Len(console) = 1
       /\ edition = [kind |-> "error", sections |-> <<>>, message |-> console[1].message]
       /\ console[1].origin = "render" => ~C8_Renderable
  /\ pc = "rejected" =>
       /\ "edition" \notin present
       /\ console = <<>>
       /\ edition.kind = "markup"
  /\ edition.kind = "error" => pc = "caught"
  /\ C8_Embedded

C8_Load ==
  (pc \in {"start", "fetching"} /\ pc' \notin {"start", "fetching"}) =>
    /\ pc' \in {"rendered", "caught", "rejected"}
    /\ pc' = "rendered" => C8_Renderable
    /\ (~C8_Renderable /\ "edition" \in present) => pc' = "caught"
    /\ (pc' = "caught" /\ console'[1].origin = "loadBodyJson") =>
         /\ pc = "fetching"
         /\ console'[1] \in LoadErrors
    /\ FetchFails => IF "edition" \in present
                     THEN pc' = "caught" /\ console'[1].origin = "loadBodyJson"
                     ELSE pc' = "rejected"

\* C8, amended: one handler catches the failure of the loader (fetch
\* rejected, response not ok with its status text in the message, body not
\* JSON) and any error render throws after a successful load (a payload
\* without divs, a missing required container): when the main content
\* container exists the error's message replaces its content and the error
\* is logged, render not having finished; when the container does not
\* exist the handler fails itself and nothing is shown or logged.  With a
\* global payload object nothing is fetched and the load does not fail.
C8_HandlerCatchesBoth ==
  /\ []C8_State
  /\ [][C8_Load]_vars

\* An error of render, caught: its message in the main content area.
C8_Witness ==
  /\ pc = "caught"
  /\ console[1].origin = "render"
  /\ edition.kind = "error"
  /\ RenderedDoc.kind = "object"
  /\ ~RenderedDoc.divs.present

ActiveLinks == {k \in DOMAIN toc : toc[k].active}

Intersecting(entries) == {k \in DOMAIN entries : entries[k].isIntersecting}

\* What the callback makes of the links when it is given entries: exactly
\* the link mapped to the section of the last intersecting entry is active,
\* or the links are as they were when no entry is intersecting.
C9_After(entries) ==
  LET after == observerCallback(toc, observer.byId, Sections, entries)
  IN  IF Intersecting(entries) = {}
      THEN after = toc
      ELSE LET last == entries[SetMax(Intersecting(entries))]
           IN  /\ {k \in DOMAIN after : after[k].active}
                    = {observer.byId[Sections[last.target].id]}
               /\ [k \in DOMAIN after |-> [after[k] EXCEPT !.active = FALSE]]
                    = [k \in DOMAIN toc |-> [toc[k] EXCEPT !.active = FALSE]]

C9_DistinctIds ==
  \A i, j \in DOMAIN Sections : Sections[i].id = Sections[j].id => i = j

C9_State ==
  /\ Cardinality(ActiveLinks) <= 1
  /\ \A entries \in Batches(observer.targets) : C9_After(entries)
  /\ (observer.created /\ C9_DistinctIds) =>
       /\ observer.targets = DOMAIN Sections
       /\ \A i \in DOMAIN Sections :
            /\ observer.byId[Sections[i].id] = i
            /\ toc[i].href = <<"#">> \o Sections[i].id

\* C9: at most one TOC link is active; a callback whose batch holds an
\* intersecting entry leaves active exactly the link mapped to the section
\* of the last such entry, and a batch with none leaves the links as they
\* were; no step of the rendered page other than a callback changes the
\* active marker; and when the section ids are all distinct the link mapped
\* to a section is the TOC entry of the same division.
C9_ActiveTracker ==
  /\ []C9_State
  /\ [][(pc = "rendered" /\ ActiveLinks' # ActiveLinks) =>
          \E entries \in Batches(observer.targets) :
            /\ Intersect(entries)
            /\ Intersecting(entries) # {}]_vars

\* The second link active on a page of two sections with distinct ids.
C9_Witness ==
  /\ Len(Sections) = 2
  /\ C9_DistinctIds
  /\ ActiveLinks = {2}

=============================================================================
